---- MODULE Spec2Model ----
(***************************************************************************)
(* Model of the desgaste-viga analysis scripts: the sample-path naming     *)
(* helpers and the wear-level grouping of DataImporter.py, the resonance   *)
(* extraction of DataImporter.py, and the lazily computed impulse response *)
(* of the DataHandler / DataHolder classes.                                *)
(*                                                                         *)
(* Python strings are modelled as sequences of one-character strings, and  *)
(* Python's 0-based indices are kept in the operators that model str       *)
(* methods (rfind, find, slicing).                                         *)
(***************************************************************************)
EXTENDS Integers, Sequences, FiniteSets, TLC

VARIABLES
    path, pathOp, pathRet,                       \* one call of atuador / desgaste
    feather_paths, niveis_desgaste, sorted_paths,
    agrIdx, agrOutcome, agrResult,               \* one call of agrupar_por_desgaste
    variant, runFails, nSamples, dac, imu, fir, fir_freq,
    runs, transforms, lastCall, outcome,         \* a DataHandler / DataHolder object
    magnitude, altura_rel, distancia, proeminencia,
    altura, picos, resPc, resResult,             \* one call of achar_ressonancias
    feathers_paths, imus, feathers_agrupados,
    desgaste_lvl, imuIdx, inputs, poolResults,
    firstExc, completionOrder, dfs,
    impPc, impResult,                            \* one call of importar_respostas_em_frequencia
    files, plot_all, navI, navDepth, lastInput,
    lastPlotted, plotted, navPc, navOutcome      \* the folder navigator of main

pathVars == <<path, pathOp, pathRet>>
agrVars  == <<feather_paths, niveis_desgaste, sorted_paths, agrIdx, agrOutcome, agrResult>>
hVars    == <<variant, runFails, nSamples, dac, imu, fir, fir_freq,
               runs, transforms, lastCall, outcome>>
resVars  == <<magnitude, altura_rel, distancia, proeminencia, altura, picos, resPc, resResult>>
impVars  == <<feathers_paths, imus, feathers_agrupados, desgaste_lvl, imuIdx, inputs,
               poolResults, firstExc, completionOrder, dfs, impPc, impResult>>
navVars  == <<files, plot_all, navI, navDepth, lastInput, lastPlotted, plotted,
               navPc, navOutcome>>
vars     == <<pathVars, agrVars, hVars, resVars, impVars, navVars>>

----------------------------------------------------------------------------
(* Bounds *)

MaxDirs  == 3      \* directories in a generated sample path
MaxBatch == 3      \* paths in a batch given to agrupar_por_desgaste
RecursionLimit == 4   \* nested retries before the interpreter raises RecursionError
MaxLen == 7        \* bins of a magnitude spectrum
MaxMag == 4        \* largest magnitude of a bin
MaxRuns == 3       \* filter runs and spectral transforms counted on one handler
MaxFiles == 3      \* feather files found by achar_feathers
MaxNavFiles == 3   \* files of the folder given to main

----------------------------------------------------------------------------
(* Python str helpers *)

Max(S) == CHOOSE x \in S : \A y \in S : y <= x
Min(S) == CHOOSE x \in S : \A y \in S : x <= y

Digits == {"0", "1", "2", "3", "4", "5", "6", "7", "8", "9"}

DigitVal(c) ==
    CASE c = "0" -> 0 [] c = "1" -> 1 [] c = "2" -> 2 [] c = "3" -> 3
      [] c = "4" -> 4 [] c = "5" -> 5 [] c = "6" -> 6 [] c = "7" -> 7
      [] c = "8" -> 8 [] c = "9" -> 9

\* sub occurs in s at 0-based index i
OccursAt(s, sub, i) ==
    /\ i >= 0
    /\ i + Len(sub) <= Len(s)
    /\ SubSeq(s, i + 1, i + Len(sub)) = sub

\* str.rfind: highest index of an occurrence, -1 when there is none
rfind(s, sub) ==
    LET I == {i \in 0..(Len(s) - Len(sub)) : OccursAt(s, sub, i)}
    IN  IF I = {} THEN -1 ELSE Max(I)

\* str.find: lowest index of an occurrence, -1 when there is none
find(s, sub) ==
    LET I == {i \in 0..(Len(s) - Len(sub)) : OccursAt(s, sub, i)}
    IN  IF I = {} THEN -1 ELSE Min(I)

\* s[k:] with Python's treatment of a negative or too large k
SliceFrom(s, k) ==
    LET start == IF k < 0 THEN (IF Len(s) + k < 0 THEN 0 ELSE Len(s) + k) ELSE k
    IN  IF start >= Len(s) THEN <<>> ELSE SubSeq(s, start + 1, Len(s))

\* s.rstrip(c)
RECURSIVE rstrip(_, _)
rstrip(s, c) ==
    IF s # <<>> /\ s[Len(s)] = c THEN rstrip(SubSeq(s, 1, Len(s) - 1), c) ELSE s

\* s.split(sep) for a one-character separator: the list of tokens
RECURSIVE split(_, _)
split(s, sep) ==
    LET I == {i \in 1..Len(s) : s[i] = sep}
    IN  IF I = {} THEN <<s>>
        ELSE <<SubSeq(s, 1, Min(I) - 1)>> \o split(SubSeq(s, Min(I) + 1, Len(s)), sep)

\* os.path.basename (posixpath): what follows the last "/"
basename(p) == SliceFrom(p, rfind(p, <<"/">>) + 1)

\* os.path.dirname (posixpath): what precedes the last "/", trailing "/"
\* stripped unless the head consists of "/" only
dirname(p) ==
    LET i    == rfind(p, <<"/">>) + 1
        head == SubSeq(p, 1, i)
    IN  IF head # <<>> /\ (\E k \in 1..Len(head) : head[k] # "/")
        THEN rstrip(head, "/") ELSE head

----------------------------------------------------------------------------
(* DataImporter.py: atuador, desgaste *)

Viga    == <<"V", "i", "g", "a">>
Intacta == <<"I", "n", "t", "a", "c", "t", "a">>

Returned(v) == [kind |-> "return", val |-> v]
PathError   == [kind |-> "PathError", val |-> -1]
IndexError  == [kind |-> "IndexError", val |-> -1]
NoRet       == [kind |-> "none", val |-> -1]

\* a slip that reads the first character of the second token
atuador_first_char(p) ==
    LET file_name == basename(p)
        tokens    == split(file_name, "_")
    IN  IF Len(tokens) < 2 THEN PathError
        ELSE IF Len(tokens[2]) < 1 THEN PathError
        ELSE IF tokens[2][1] \notin Digits THEN PathError
        ELSE Returned(DigitVal(tokens[2][1]))

\* atuador(path): int(file_name.split("_")[1][1]); IndexError and
\* ValueError become PathError
atuador(p) ==
    LET file_name == basename(p)
        tokens    == split(file_name, "_")
    IN  IF Len(tokens) < 2 THEN PathError              \* [1]: IndexError
        ELSE IF Len(tokens[2]) < 2 THEN PathError      \* [1][1]: IndexError
        ELSE IF tokens[2][2] \notin Digits THEN PathError   \* int(): ValueError
        ELSE Returned(DigitVal(tokens[2][2]))

\* desgaste(path): dir = dir_path[dir_path.rfind('Viga'):];
\* 0 if dir.find('Intacta') > 0 else int(dir[-1])
desgaste(p) ==
    LET dir_path == dirname(p)
        dir      == SliceFrom(dir_path, rfind(dir_path, Viga))
    IN  IF find(dir, Intacta) > 0 THEN Returned(0)
        ELSE IF dir = <<>> THEN PathError                    \* dir[-1]: IndexError
        ELSE IF dir[Len(dir)] \notin Digits THEN PathError   \* int(): ValueError
        ELSE Returned(DigitVal(dir[Len(dir)]))

----------------------------------------------------------------------------
(* Sample paths: directory names joined by "/" and followed by a file name *)

DirNames ==
    { <<"D", "a", "d", "o", "s">>,
      <<"V", "i", "g", "a", "3">>,
      <<"V", "i", "g", "a", "9">>,
      <<"V", "i", "g", "a", " ", "I", "n", "t", "a", "c", "t", "a">>,
      <<"V", "i", "g", "a">>,
      <<"r", "u", "n", "7">>,
      <<"s", "u", "b">> }

FileNames ==
    { <<"a", "_", "d", "1", ".", "f", "e", "a", "t", "h", "e", "r">>,
      <<"a", "_", "2", "x", ".", "f", "e", "a", "t", "h", "e", "r">>,
      <<"a", "_", "1", "2", "_", "c", ".", "f", "e", "a", "t", "h", "e", "r">>,
      <<"a", "_", "d", ".", "f", "e", "a", "t", "h", "e", "r">>,
      <<"a", "_", "7">>,
      <<"a", ".", "f", "e", "a", "t", "h", "e", "r">> }

\* os.path.join of directory names and a file name
RECURSIVE JoinPath(_, _)
JoinPath(dirs, file) ==
    IF dirs = <<>> THEN file
    ELSE dirs[1] \o <<"/">> \o JoinPath(Tail(dirs), file)

DirLists == UNION {[1..n -> DirNames] : n \in 0..MaxDirs}

SamplePaths == {JoinPath(ds, f) : ds \in DirLists, f \in FileNames}

----------------------------------------------------------------------------
(* What the naming convention prescribes, stated on the path's components *)

\* the directory names of a path, outermost first
DirComponents(p) ==
    LET d == dirname(p) IN IF d = <<>> THEN <<>> ELSE split(d, "/")

IsBeamDir(name) == find(name, Viga) >= 0
IsIntactDir(name) == find(name, Intacta) >= 0

HasBeamDir(p) == \E k \in 1..Len(DirComponents(p)) : IsBeamDir(DirComponents(p)[k])

\* the beam directory nearest to the file
NearestBeamDir(p) ==
    LET cs == DirComponents(p)
    IN  cs[Max({k \in 1..Len(cs) : IsBeamDir(cs[k])})]


----------------------------------------------------------------------------
(* DataImporter.py: agrupar_por_desgaste *)

\* the None that fills sorted_paths[d][0] until a path of level d arrives
NonePath == <<"None">>

WellFormedFile == <<"a", "_", "d", "1", ".", "f", "e", "a", "t", "h", "e", "r">>

\* the paths a batch is drawn from: the well-formed file name directly
\* inside each directory, and the bare file name
BatchPaths == {JoinPath(ds, WellFormedFile) : ds \in {<<>>} \cup [1..1 -> DirNames]}

Batches == UNION {[1..n -> BatchPaths] : n \in 0..MaxBatch}

\* values given for niveis_desgaste; 9 is the default
DefaultNiveis == 9
NiveisChoices == {1, 4, DefaultNiveis, 10}

\* [[None] for _ in range(niveis_desgaste)]
InitialSortedPaths(n) == [d \in 1..n |-> <<NonePath>>]

\* a slip that appends without replacing the None placeholder
place_append_only(sp, d, p) == [sp EXCEPT ![d + 1] = Append(@, p)]

\* the body of the loop for a level d inside the list (d is 0-based)
place(sp, d, p) ==
    IF sp[d + 1][1] = NonePath
    THEN [sp EXCEPT ![d + 1][1] = p]
    ELSE [sp EXCEPT ![d + 1] = Append(@, p)]

NoResult     == [kind |-> "none", val |-> <<>>]
Raised(kind) == [kind |-> kind, val |-> <<>>]

----------------------------------------------------------------------------
(* Specification of the path helpers: one call on one path *)

PathIdle == /\ pathOp = "idle" /\ pathRet = NoRet /\ path = <<>>
NoneStr == "None"
NoFir     == [st |-> "absent", dac |-> NoneStr, imu |-> NoneStr]
NoFirFreq == [st |-> "absent", src |-> NoFir]
NoVal     == [st |-> "none"]
NoOutcome == [kind |-> "none", val |-> NoVal]

NoPeaks  == [kind |-> "none", amplitudes |-> <<>>, ressonancias |-> <<>>]
ResIdle  == /\ magnitude = <<>> /\ altura_rel = <<0, 1>> /\ distancia = 0 /\ proeminencia = 0
            /\ altura = <<0, 1>> /\ picos = <<>> /\ resPc = "idle" /\ resResult = NoPeaks
HIdle    == /\ variant = "Tools" /\ runFails = FALSE /\ dac = NoneStr /\ imu = NoneStr
            /\ fir = NoFir /\ fir_freq = NoFirFreq
            /\ nSamples = 0 /\ runs = 0 /\ transforms = 0
            /\ lastCall = "none" /\ outcome = NoOutcome
AgrIdle  == /\ feather_paths = <<>> /\ niveis_desgaste = 0 /\ sorted_paths = <<>>
            /\ agrIdx = 0 /\ agrOutcome = "idle" /\ agrResult = NoResult
NoExc    == [kind |-> "none"]
ImpIdle  == /\ feathers_paths = <<>> /\ imus = <<>> /\ feathers_agrupados = <<>>
            /\ desgaste_lvl = 0 /\ imuIdx = 0 /\ inputs = <<>> /\ poolResults = <<>>
            /\ firstExc = NoExc /\ completionOrder = <<>> /\ dfs = <<>>
            /\ impPc = "idle" /\ impResult = NoResult
NoFile   == <<"None">>
NavIdle  == /\ files = <<>> /\ plot_all = FALSE /\ navI = 1 /\ navDepth = 0
            /\ lastInput = NoFile /\ lastPlotted = NoFile /\ plotted = {}
            /\ navPc = "idle" /\ navOutcome = "none"

InitPath ==
    /\ path \in SamplePaths
    /\ pathOp = "idle"
    /\ pathRet = NoRet
    /\ AgrIdle
    /\ HIdle
    /\ ResIdle
    /\ ImpIdle
    /\ NavIdle

CallAtuador ==
    /\ pathOp = "idle"
    /\ pathOp' = "atuador"
    /\ pathRet' = atuador(path)
    /\ UNCHANGED <<path, agrVars, hVars, resVars, impVars, navVars>>

CallDesgaste ==
    /\ pathOp = "idle"
    /\ pathOp' = "desgaste"
    /\ pathRet' = desgaste(path)
    /\ UNCHANGED <<path, agrVars, hVars, resVars, impVars, navVars>>

NextPath == CallAtuador \/ CallDesgaste

SpecPath == InitPath /\ [][NextPath]_vars

----------------------------------------------------------------------------
(* Specification of agrupar_por_desgaste: one call, one loop iteration per *)
(* step                                                                    *)

InitAgrupar ==
    /\ feather_paths \in Batches
    /\ niveis_desgaste \in NiveisChoices
    /\ sorted_paths = <<>>
    /\ agrIdx = 0
    /\ agrOutcome = "call"
    /\ agrResult = NoResult
    /\ PathIdle
    /\ HIdle
    /\ ResIdle
    /\ ImpIdle
    /\ NavIdle

\* line 173
AgruparEnter ==
    /\ agrOutcome = "call"
    /\ sorted_paths' = InitialSortedPaths(niveis_desgaste)
    /\ agrIdx' = 1
    /\ agrOutcome' = "loop"
    /\ UNCHANGED <<feather_paths, niveis_desgaste, agrResult, pathVars, hVars, resVars, impVars, navVars>>

\* lines 174-179, one iteration; an exception leaves the function and its
\* local sorted_paths is gone
AgruparIter ==
    /\ agrOutcome = "loop"
    /\ agrIdx <= Len(feather_paths)
    /\ LET p == feather_paths[agrIdx]
           d == desgaste(p)
       IN  IF d.kind = "PathError"
           THEN /\ agrOutcome' = "done"
                /\ agrResult' = Raised("PathError")
                /\ sorted_paths' = <<>>
                /\ agrIdx' = agrIdx
           ELSE IF d.val >= Len(sorted_paths)
           THEN /\ agrOutcome' = "done"
                /\ agrResult' = Raised("IndexError")
                /\ sorted_paths' = <<>>
                /\ agrIdx' = agrIdx
           ELSE /\ sorted_paths' = place(sorted_paths, d.val, p)
                /\ agrIdx' = agrIdx + 1
                /\ UNCHANGED <<agrOutcome, agrResult>>
    /\ UNCHANGED <<feather_paths, niveis_desgaste, pathVars, hVars, resVars, impVars, navVars>>

\* line 181
AgruparReturn ==
    /\ agrOutcome = "loop"
    /\ agrIdx > Len(feather_paths)
    /\ agrOutcome' = "done"
    /\ agrResult' = [kind |-> "return", val |-> sorted_paths]
    /\ UNCHANGED <<feather_paths, niveis_desgaste, sorted_paths, agrIdx, pathVars, hVars, resVars, impVars, navVars>>

NextAgrupar == AgruparEnter \/ AgruparIter \/ AgruparReturn

SpecAgrupar == InitAgrupar /\ [][NextAgrupar]_vars

----------------------------------------------------------------------------
(* Tools/DataChecker.py: DataHandler; DataChecker/DataChecker.py and       *)
(* DataChecker/DataChecker_CLI.py: DataHolder                              *)

Variants == {"Tools", "DataChecker", "DataChecker_CLI"}

\* the columns of the sample file
SampleChannels == {"dac1", "dac2", "imu1accz", "imu2accz"}

\* values given for dac and imu; "dac7" and "imu9accz" are not columns
DacChoices == {NoneStr, "dac1", "dac2", "dac7"}
ImuChoices == {NoneStr, "imu2accz", "imu9accz"}

\* memorysize of the filter, and the lengths of the sample's series
memorysize    == 2000
SampleLengths == {1, memorysize - 1, memorysize}

\* self, with the number of calls of self.fir.run and of easyFourier so far
Handler == [dac |-> dac, imu |-> imu, fir |-> fir, fir_freq |-> fir_freq,
            runs |-> runs, transforms |-> transforms]

\* the FIRNLMS object right after FIRNLMS(memorysize=2000): its ww holds
\* the initial coefficients
CreatedFir == [st |-> "created", dac |-> NoneStr, imu |-> NoneStr]

Result(h, kind, val) == [h |-> h, kind |-> kind, val |-> val]

is_config(h) == ~(h.dac = NoneStr \/ h.imu = NoneStr)

\* generate_fir. 'raise ConfigError' of Tools/DataChecker.py calls
\* ConfigError() without the path its __init__ requires: a TypeError.
\* DataHolder.generate_fir has no else branch and returns. The length of
\* the series is not compared with memorysize.
generate_fir(h) ==
    IF is_config(h)
    THEN LET h1 == [h EXCEPT !.fir = CreatedFir]                        \* self.fir = FIRNLMS(...)
             h2 == [h1 EXCEPT !.runs = @ + 1]                           \* self.fir.run(x, y)
         IN  IF h.dac \notin SampleChannels THEN Result(h1, "KeyError", NoVal)      \* self.data[self.dac]
             ELSE IF h.imu \notin SampleChannels THEN Result(h1, "KeyError", NoVal) \* self.data[self.imu]
             ELSE IF runFails THEN Result(h2, "RunError", NoVal)        \* self.fir.run(x, y) raises
             ELSE Result([h2 EXCEPT !.fir = [st |-> "run", dac |-> h.dac, imu |-> h.imu]],
                         "return", NoVal)
    ELSE IF variant = "Tools" THEN Result(h, "TypeError", NoVal)
         ELSE Result(h, "return", NoVal)

\* generate_fir_freq; depth counts the nested calls of the retry
RECURSIVE generate_fir_freq(_, _)
generate_fir_freq(h, depth) ==
    IF depth > RecursionLimit THEN Result(h, "RecursionError", NoVal)
    ELSE IF h.fir.st # "absent"
    THEN Result([h EXCEPT !.fir_freq = [st |-> "computed", src |-> h.fir],
                          !.transforms = @ + 1], "return", NoVal)
    ELSE LET g == generate_fir(h)                                      \* except AttributeError
         IN  IF g.kind # "return" THEN g ELSE generate_fir_freq(g.h, depth + 1)

\* a slip that computes the impulse response on every call
get_fir_regenerate(h, depth) ==
    LET g == generate_fir(h)
    IN  IF g.kind # "return" THEN g ELSE Result(g.h, "return", g.h.fir)

\* get_fir (plt_fir in DataChecker_CLI.py)
RECURSIVE get_fir(_, _)
get_fir(h, depth) ==
    IF depth > RecursionLimit THEN Result(h, "RecursionError", NoVal)
    ELSE IF h.fir.st # "absent" THEN Result(h, "return", h.fir)
    ELSE LET g == generate_fir(h)
         IN  IF g.kind # "return" THEN g ELSE get_fir(g.h, depth + 1)

\* get_fir_freq (plt_fir_freq in DataChecker_CLI.py)
RECURSIVE get_fir_freq(_, _)
get_fir_freq(h, depth) ==
    IF depth > RecursionLimit THEN Result(h, "RecursionError", NoVal)
    ELSE IF h.fir_freq.st # "absent" THEN Result(h, "return", h.fir_freq)
    ELSE LET g == generate_fir_freq(h, depth + 1)
         IN  IF g.kind # "return" THEN g ELSE get_fir_freq(g.h, depth + 1)

InitHandler ==
    /\ variant \in Variants
    /\ runFails \in BOOLEAN
    /\ nSamples \in SampleLengths
    /\ runs = 0
    /\ transforms = 0
    /\ dac \in DacChoices
    /\ imu \in ImuChoices
    /\ fir = NoFir
    /\ fir_freq = NoFirFreq
    /\ lastCall = "none"
    /\ outcome = NoOutcome
    /\ PathIdle
    /\ AgrIdle
    /\ ResIdle
    /\ ImpIdle
    /\ NavIdle

\* the object after a call that ended with result r
Finish(r) ==
    /\ dac' = r.h.dac
    /\ imu' = r.h.imu
    /\ fir' = r.h.fir
    /\ fir_freq' = r.h.fir_freq
    /\ runs' = r.h.runs
    /\ transforms' = r.h.transforms
    /\ outcome' = [kind |-> r.kind, val |-> r.val]

\* the counters of the model stay within their bound
WithinRuns == runs < MaxRuns /\ transforms < MaxRuns

SetConfig ==
    /\ \E d \in DacChoices, i \in ImuChoices :
        Finish(Result([Handler EXCEPT !.dac = IF d # NoneStr THEN d ELSE @,
                                      !.imu = IF i # NoneStr THEN i ELSE @],
                      "return", NoVal))
    /\ lastCall' = "set_config"
    /\ UNCHANGED <<variant, runFails, nSamples, pathVars, agrVars, resVars, impVars, navVars>>

GenerateFir ==
    /\ WithinRuns
    /\ Finish(generate_fir(Handler))
    /\ lastCall' = "generate_fir"
    /\ UNCHANGED <<variant, runFails, nSamples, pathVars, agrVars, resVars, impVars, navVars>>

GenerateFirFreq ==
    /\ WithinRuns
    /\ Finish(generate_fir_freq(Handler, 1))
    /\ lastCall' = "generate_fir_freq"
    /\ UNCHANGED <<variant, runFails, nSamples, pathVars, agrVars, resVars, impVars, navVars>>

GetFir ==
    /\ WithinRuns
    /\ Finish(get_fir(Handler, 1))
    /\ lastCall' = "get_fir"
    /\ UNCHANGED <<variant, runFails, nSamples, pathVars, agrVars, resVars, impVars, navVars>>

GetFirFreq ==
    /\ WithinRuns
    /\ Finish(get_fir_freq(Handler, 1))
    /\ lastCall' = "get_fir_freq"
    /\ UNCHANGED <<variant, runFails, nSamples, pathVars, agrVars, resVars, impVars, navVars>>

NextHandler == SetConfig \/ GenerateFir \/ GenerateFirFreq \/ GetFir \/ GetFirFreq

SpecHandler == InitHandler /\ [][NextHandler]_vars

\* a handler on which only the getters are called
NextGetters == GetFir \/ GetFirFreq

SpecGetters == InitHandler /\ [][NextGetters]_vars

----------------------------------------------------------------------------
(* DataImporter.py: achar_ressonancias, from the spectrum fir_freq on.     *)
(* fir_freq[0] is the magnitude row; bin k of the frequency row is k, in   *)
(* units of fs/N. Magnitudes are naturals and all comparisons are exact.   *)
(* Indices are 0-based as in the code.                                     *)

X(x, i) == x[i + 1]

RECURSIVE SumSeq(_)
SumSeq(x) == IF x = <<>> THEN 0 ELSE x[1] + SumSeq(Tail(x))

Abs(n) == IF n < 0 THEN -n ELSE n

\* the set as an ascending sequence
RECURSIVE Ascending(_)
Ascending(S) == IF S = {} THEN <<>> ELSE <<Min(S)>> \o Ascending(S \ {Min(S)})

\* a slip that leaves out abs()
compute_altura_signed(x, a) ==
    <<SumSeq(x) * a[2] + SumSeq(x) * a[1], Len(x) * a[2]>>

\* altura = np.mean(x) + abs(np.mean(x) * altura_rel), as numerator and
\* denominator, for altura_rel = a[1] / a[2] with a[2] > 0
compute_altura(x, a) ==
    <<SumSeq(x) * a[2] + Abs(SumSeq(x) * a[1]), Len(x) * a[2]>>

\* x[i] >= altura
AboveAltura(x, a, i) ==
    X(x, i) * compute_altura(x, a)[2] >= compute_altura(x, a)[1]

\* scipy _local_maxima_1d: the peak of a plateau with a lower sample on
\* each side is the midpoint of the plateau
\* the right edge of the plateau that starts at l
PlateauEnd(x, l) ==
    LET D == {j \in l..(Len(x) - 1) : X(x, j) # X(x, l)}
    IN  IF D = {} THEN Len(x) - 1 ELSE Min(D) - 1

\* the left edges l of the plateaus l..r with a lower sample on each side
PlateauStarts(x) ==
    {l \in 1..(Len(x) - 2) :
        /\ X(x, l - 1) < X(x, l)
        /\ PlateauEnd(x, l) <= Len(x) - 2
        /\ X(x, PlateauEnd(x, l) + 1) < X(x, l)}

LocalMaxima(x) == {(l + PlateauEnd(x, l)) \div 2 : l \in PlateauStarts(x)}

\* scipy _peak_prominences (wlen = None) and _peak_widths at rel_height =
\* 0.5 for the peak pk. The bases are the lowest samples, nearest to the
\* peak, of the stretch on each side that does not rise above the peak. H2
\* is twice the evaluation height; the interpolated crossings are
\* li + ln/ld and ri - rn/rd, and wide(w) is width >= w.
PeakProperties(x, pk) ==
    LET n          == Len(x)
        h          == x[pk + 1]
        higherL    == {i \in 0..pk : x[i + 1] > h}
        higherR    == {i \in pk..(n - 1) : x[i + 1] > h}
        leftReach  == IF higherL = {} THEN 0 ELSE Max(higherL) + 1
        rightReach == IF higherR = {} THEN n - 1 ELSE Min(higherR) - 1
        leftMin    == Min({x[j + 1] : j \in leftReach..pk})
        rightMin   == Min({x[j + 1] : j \in pk..rightReach})
        leftBase   == Max({j \in leftReach..pk : x[j + 1] = leftMin})
        rightBase  == Min({j \in pk..rightReach : x[j + 1] = rightMin})
        prominence == h - (IF leftMin >= rightMin THEN leftMin ELSE rightMin)
        H2         == 2 * h - prominence
        li         == Max({i \in leftBase..pk : i = leftBase \/ 2 * x[i + 1] <= H2})
        ri         == Min({i \in pk..rightBase : i = rightBase \/ 2 * x[i + 1] <= H2})
        lint       == 2 * x[li + 1] < H2
        rint       == 2 * x[ri + 1] < H2
        ln         == IF lint THEN H2 - 2 * x[li + 1] ELSE 0
        ld         == IF lint THEN 2 * (x[li + 2] - x[li + 1]) ELSE 1
        rn         == IF rint THEN H2 - 2 * x[ri + 1] ELSE 0
        rd         == IF rint THEN 2 * (x[ri] - x[ri + 1]) ELSE 1
    IN  [prominence |-> prominence,
         left_base  |-> leftBase,
         right_base |-> rightBase,
         wnum       |-> (ri - li) * ld * rd - (rn * ld + ln * rd),
         wden       |-> ld * rd]

Prominence(x, pk) == PeakProperties(x, pk).prominence

\* width >= w, the width being wnum / wden
WidthAtLeast(x, pk, w) ==
    LET pp == PeakProperties(x, pk) IN pp.wnum >= w * pp.wden

\* find_peaks(fir_freq[0], height=altura, width=distancia,
\*            prominence=proeminencia)[0]
find_peaks(x, a, w, prom) ==
    Ascending({pk \in LocalMaxima(x) :
                  /\ AboveAltura(x, a, pk)
                  /\ Prominence(x, pk) >= prom
                  /\ WidthAtLeast(x, pk, w)})

\* the sampling rate given to easyFourier; bin k of the frequency row
\* fir_freq[1] is k * fs / N, kept here in units of 1/N Hz
fs == 416
frequency(k) == k * fs

\* np.array([fir_freq[:, i] for i in picos]): one row <<magnitude, frequency>>
\* per peak
np_data(x, pks) == [j \in 1..Len(pks) |-> <<X(x, pks[j]), frequency(pks[j])>>]

\* a slip that takes the columns in the other order
split_columns_swapped(data) ==
    [amplitudes   |-> [j \in 1..Len(data) |-> <<data[j][2]>>],
     ressonancias |-> [j \in 1..Len(data) |-> <<data[j][1]>>]]

\* np.split(np_data, 2, 1) of a (k, 2) array: its two columns, each of
\* shape (k, 1)
split_columns(data) ==
    [amplitudes   |-> [j \in 1..Len(data) |-> <<data[j][1]>>],
     ressonancias |-> [j \in 1..Len(data) |-> <<data[j][2]>>]]

\* spectra and parameter values of a call
Spectra == UNION {[1..n -> 0..MaxMag] : n \in 1..MaxLen}

\* altura_rel as numerator and denominator; .33 is the default
DefaultAlturaRel == <<33, 100>>
AlturaRels    == {DefaultAlturaRel, <<-1, 2>>}
Distancias    == {3}
Proeminencias == {1}

InitPeaks ==
    /\ magnitude \in Spectra
    /\ altura_rel \in AlturaRels
    /\ distancia \in Distancias
    /\ proeminencia \in Proeminencias
    /\ altura = <<0, 1>>
    /\ picos = <<>>
    /\ resPc = "call"
    /\ resResult = NoPeaks
    /\ PathIdle
    /\ AgrIdle
    /\ HIdle
    /\ ImpIdle
    /\ NavIdle

\* lines 121-122
FindPeaks ==
    /\ resPc = "call"
    /\ altura' = compute_altura(magnitude, altura_rel)
    /\ picos' = find_peaks(magnitude, altura_rel, distancia, proeminencia)
    /\ resPc' = "split"
    /\ UNCHANGED <<magnitude, altura_rel, distancia, proeminencia, resResult,
                   pathVars, agrVars, hVars, impVars, navVars>>

\* lines 123-126: np_data has shape (k, 2) for k >= 1 peaks and shape (0,)
\* for none; np.split along axis 1 of a one-dimensional array raises
\* IndexError
SplitPeaks ==
    /\ resPc = "split"
    /\ resPc' = "done"
    /\ resResult' =
          IF picos = <<>>
          THEN [kind |-> "IndexError", amplitudes |-> <<>>, ressonancias |-> <<>>]
          ELSE [kind |-> "return",
                amplitudes   |-> split_columns(np_data(magnitude, picos)).amplitudes,
                ressonancias |-> split_columns(np_data(magnitude, picos)).ressonancias]
    /\ UNCHANGED <<magnitude, altura_rel, distancia, proeminencia, altura, picos,
                   pathVars, agrVars, hVars, impVars, navVars>>

NextPeaks == FindPeaks \/ SplitPeaks

SpecPeaks == InitPeaks /\ [][NextPeaks]_vars

----------------------------------------------------------------------------
(* DataImporter.py: importar_respostas_em_frequencia                       *)

FeatherExt == <<".", "f", "e", "a", "t", "h", "e", "r">>

\* the feather files of the folder tree: two well-formed samples of beam
\* level 3, one whose actuator has no column in the sample (dac7), one of
\* the intact beam, one whose name has no actuator token and one outside
\* any beam directory
ImportPaths ==
    { JoinPath(<<<<"V", "i", "g", "a", "3">>>>, <<"a", "_", "d", "1">> \o FeatherExt),
      JoinPath(<<<<"V", "i", "g", "a", "3">>>>, <<"b", "_", "d", "2">> \o FeatherExt),
      JoinPath(<<<<"V", "i", "g", "a", "3">>>>, <<"c", "_", "d", "7">> \o FeatherExt),
      JoinPath(<<<<"V", "i", "g", "a", " ", "I", "n", "t", "a", "c", "t", "a">>>>,
               <<"a", "_", "d", "1">> \o FeatherExt),
      JoinPath(<<<<"V", "i", "g", "a", "3">>>>, <<"e">> \o FeatherExt),
      JoinPath(<<<<"D", "a", "d", "o", "s">>>>, <<"a", "_", "d", "1">> \o FeatherExt) }

Range(f) == {f[k] : k \in DOMAIN f}

\* what achar_feathers can return: the files found, each once, in the
\* order of os.listdir
FeatherLists ==
    UNION {{fl \in [1..n -> ImportPaths] : \A j, k \in 1..n : j # k => fl[j] # fl[k]}
           : n \in 0..MaxFiles}

ImusChoices == {<<"imu2accz">>, <<"imu1accz", "imu2accz">>, <<"imu2accz", "imu9accz">>}

\* f'dac{dac}'
DacName(n) ==
    <<"dac0", "dac1", "dac2", "dac3", "dac4", "dac5", "dac6", "dac7", "dac8", "dac9">>[n + 1]

\* os.path.basename(feather)[:-8]
name_tag(feather) == SubSeq(basename(feather), 1, Len(basename(feather)) - 8)

\* agrupar_por_desgaste(feathers_paths), from the first path of paths on
RECURSIVE agrupar_por_desgaste(_, _)
agrupar_por_desgaste(paths, sp) ==
    IF paths = <<>> THEN [kind |-> "return", val |-> sp]
    ELSE LET d == desgaste(paths[1])
         IN  IF d.kind # "return" THEN Raised(d.kind)
             ELSE IF d.val >= Len(sp) THEN Raised("IndexError")
             ELSE agrupar_por_desgaste(Tail(paths), place(sp, d.val, paths[1]))

\* gerar_resposta_em_frequencia, as run by a worker: the value returned is
\* np.array(data.fir_freq) of the sample feather
gerar_resposta_em_frequencia(feather, dacN, imuName) ==
    LET data == [dac |-> DacName(dacN), imu |-> imuName, fir |-> NoFir,
                 fir_freq |-> NoFirFreq, runs |-> 0, transforms |-> 0]
        r    == generate_fir_freq(data, 1)
    IN  IF r.kind # "return" THEN [kind |-> r.kind]
        ELSE [kind |-> "return", val |-> [feather |-> feather, fir_freq |-> r.h.fir_freq]]

\* i[0]: the magnitude row of a worker's result
magnitude_row(v) ==
    [feather |-> v.feather, dac |-> v.fir_freq.src.dac, imu |-> v.fir_freq.src.imu]

Pending == [kind |-> "pending"]

\* a slip that collects the results in the order the workers complete
store_in_completion_order(results, done, k, r) == [results EXCEPT ![done + 1] = r]

\* starmap keeps the result of task k at position k, whatever number of
\* tasks completed before it
store(results, done, k, r) == [results EXCEPT ![k] = r]

\* pd.DataFrame(amplitudes, index=MultiIndex.from_product([[lvl], name_tags]))
DataFrame(lvl, feathers, amplitudes) ==
    [j \in 1..Len(feathers) |->
        [label |-> <<lvl, name_tag(feathers[j])>>, row |-> amplitudes[j]]]

\* pd.concat(dfs)
RECURSIVE concat(_)
concat(blocks) == IF blocks = <<>> THEN <<>> ELSE blocks[1] \o concat(Tail(blocks))

InitImport ==
    /\ feathers_paths \in FeatherLists
    /\ imus \in ImusChoices
    /\ feathers_agrupados = <<>>
    /\ desgaste_lvl = 0
    /\ imuIdx = 1
    /\ inputs = <<>>
    /\ poolResults = <<>>
    /\ firstExc = NoExc
    /\ completionOrder = <<>>
    /\ dfs = <<>>
    /\ impPc = "call"
    /\ impResult = NoResult
    /\ PathIdle
    /\ AgrIdle
    /\ HIdle
    /\ ResIdle
    /\ NavIdle

\* lines 185-186; an exception of agrupar_por_desgaste leaves the function
ImportGroup ==
    /\ impPc = "call"
    /\ LET g == agrupar_por_desgaste(feathers_paths, InitialSortedPaths(DefaultNiveis))
       IN  IF g.kind = "return"
           THEN /\ feathers_agrupados' = g.val
                /\ impPc' = "levels"
                /\ impResult' = impResult
           ELSE /\ feathers_agrupados' = <<>>
                /\ impPc' = "done"
                /\ impResult' = Raised(g.kind)
    /\ UNCHANGED <<feathers_paths, imus, desgaste_lvl, imuIdx, inputs, poolResults,
                   firstExc, completionOrder, dfs,
                   pathVars, agrVars, hVars, resVars, navVars>>

\* lines 189-191: a wear level without samples is skipped
ImportSkipLevel ==
    /\ impPc = "levels"
    /\ desgaste_lvl < Len(feathers_agrupados)
    /\ feathers_agrupados[desgaste_lvl + 1] = <<NonePath>>
    /\ desgaste_lvl' = desgaste_lvl + 1
    /\ UNCHANGED <<feathers_paths, imus, feathers_agrupados, imuIdx, inputs, poolResults,
                   firstExc, completionOrder, dfs, impPc, impResult,
                   pathVars, agrVars, hVars, resVars, navVars>>

\* lines 193-197, up to the call of starmap: the inputs are built, atuador
\* raising for the first path it cannot read, and one task per input is
\* handed to the pool
ImportDispatch ==
    /\ impPc = "levels"
    /\ desgaste_lvl < Len(feathers_agrupados)
    /\ feathers_agrupados[desgaste_lvl + 1] # <<NonePath>>
    /\ LET feathers == feathers_agrupados[desgaste_lvl + 1]
           bad      == {j \in 1..Len(feathers) : atuador(feathers[j]).kind # "return"}
       IN  IF bad # {}
           THEN /\ impPc' = "done"
                /\ impResult' = Raised(atuador(feathers[Min(bad)]).kind)
                /\ UNCHANGED <<inputs, poolResults>>
           ELSE /\ inputs' = [j \in 1..Len(feathers) |->
                                <<feathers[j], atuador(feathers[j]).val, imus[imuIdx]>>]
                /\ poolResults' = [j \in 1..Len(feathers) |-> Pending]
                /\ impPc' = "pool"
                /\ impResult' = impResult
    /\ firstExc' = NoExc
    /\ completionOrder' = <<>>
    /\ UNCHANGED <<feathers_paths, imus, feathers_agrupados, desgaste_lvl, imuIdx, dfs,
                   pathVars, agrVars, hVars, resVars, navVars>>

\* a worker completes one of the tasks still pending, in any order; the
\* pool keeps the first exception it receives
WorkerComplete ==
    /\ impPc = "pool"
    /\ \E k \in 1..Len(inputs) :
        /\ poolResults[k] = Pending
        /\ LET r == gerar_resposta_em_frequencia(inputs[k][1], inputs[k][2], inputs[k][3])
           IN  /\ poolResults' = store(poolResults, Len(completionOrder), k, r)
               /\ firstExc' = IF r.kind # "return" /\ firstExc = NoExc THEN r ELSE firstExc
        /\ completionOrder' = Append(completionOrder, k)
    /\ UNCHANGED <<feathers_paths, imus, feathers_agrupados, desgaste_lvl, imuIdx, inputs,
                   dfs, impPc, impResult,
                   pathVars, agrVars, hVars, resVars, navVars>>

\* lines 196-199: starmap returns when every task has completed, raising
\* the first exception received if there is one; otherwise the block of
\* this wear level and imu is appended to dfs
ImportCollect ==
    /\ impPc = "pool"
    /\ Len(completionOrder) = Len(inputs)
    /\ IF firstExc # NoExc
       THEN /\ impPc' = "done"
            /\ impResult' = Raised(firstExc.kind)
            /\ UNCHANGED <<dfs, desgaste_lvl, imuIdx>>
       ELSE /\ dfs' = Append(dfs,
                        DataFrame(desgaste_lvl, feathers_agrupados[desgaste_lvl + 1],
                                  [j \in 1..Len(poolResults) |->
                                        magnitude_row(poolResults[j].val)]))
            /\ IF imuIdx < Len(imus)
               THEN imuIdx' = imuIdx + 1 /\ desgaste_lvl' = desgaste_lvl
               ELSE imuIdx' = 1 /\ desgaste_lvl' = desgaste_lvl + 1
            /\ impPc' = "levels"
            /\ impResult' = impResult
    /\ UNCHANGED <<feathers_paths, imus, feathers_agrupados, inputs, poolResults,
                   firstExc, completionOrder,
                   pathVars, agrVars, hVars, resVars, navVars>>

\* line 201: pd.concat of an empty list raises ValueError
ImportReturn ==
    /\ impPc = "levels"
    /\ desgaste_lvl = Len(feathers_agrupados)
    /\ impPc' = "done"
    /\ impResult' = IF dfs = <<>> THEN Raised("ValueError")
                    ELSE [kind |-> "return", val |-> concat(dfs)]
    /\ UNCHANGED <<feathers_paths, imus, feathers_agrupados, desgaste_lvl, imuIdx, inputs,
                   poolResults, firstExc, completionOrder, dfs,
                   pathVars, agrVars, hVars, resVars, navVars>>

NextImport ==
    ImportGroup \/ ImportSkipLevel \/ ImportDispatch \/ WorkerComplete
        \/ ImportCollect \/ ImportReturn

SpecImport == InitImport /\ [][NextImport]_vars

----------------------------------------------------------------------------
(* Tools/DataChecker.py and DataChecker/DataChecker.py: the folder         *)
(* navigator of main                                                       *)

\* names of the files of the folder; the last one is a number
NavFileNames == {<<"a">>, <<"b">>, <<"c">>, <<"2">>}

\* os.listdir(path): the files of the folder, each once, in any order
FolderListings ==
    UNION {{fl \in [1..n -> NavFileNames] : \A j, k \in 1..n : j # k => fl[j] # fl[k]}
           : n \in 0..MaxNavFiles}

num_files == Len(files)

\* what the user types at a prompt
NavInputs ==
    NavFileNames \cup
    { <<>>, <<"q">>, <<"a", "l", "l">>, <<"z">>,
      <<"0">>, <<"1">>, <<"3">>, <<"4">>, <<"5">>, <<"-", "1">>, <<"-", "4">> }

\* the value of a string of digits
RECURSIVE DigitsVal(_)
DigitsVal(ds) ==
    IF ds = <<>> THEN 0 ELSE DigitsVal(SubSeq(ds, 1, Len(ds) - 1)) * 10 + DigitVal(ds[Len(ds)])

\* int(user_input): an optional sign and at least one digit; anything else
\* raises ValueError and the input stays a string
ParseInt(u) ==
    LET signed == u # <<>> /\ u[1] \in {"-", "+"}
        ds     == IF signed THEN Tail(u) ELSE u
    IN  IF ds # <<>> /\ \A k \in 1..Len(ds) : ds[k] \in Digits
        THEN [ok |-> TRUE, val |-> IF signed /\ u[1] = "-" THEN -DigitsVal(ds) ELSE DigitsVal(ds)]
        ELSE [ok |-> FALSE, val |-> 0]

\* files.index(name), counted from 0
index(fl, name) == Min({k \in 1..Len(fl) : fl[k] = name}) - 1

\* files[k] of Python, a negative k counting from the end
InBounds(fl, k) == k >= -Len(fl) /\ k < Len(fl)
PyIndex(fl, k)  == IF k >= 0 THEN fl[k + 1] ELSE fl[Len(fl) + k + 1]

\* one activation of processar_input: ret is "True", "False", or "again"
\* when the input is unsupported and another one is asked for
processar_input(user_input) ==
    LET v        == ParseInt(user_input)
        keep(r)  == [ret |-> r, i |-> navI, plot_all |-> plot_all]
    IN  IF v.ok
        THEN IF v.val <= num_files + 1
             THEN [ret |-> "False", i |-> v.val, plot_all |-> plot_all]
             ELSE keep("again")
        ELSE IF user_input = <<>> THEN keep("False")
        ELSE IF user_input = <<"q">> THEN keep("True")
        ELSE IF user_input = <<"a", "l", "l">>
             THEN [ret |-> "False", i |-> navI, plot_all |-> TRUE]
        ELSE IF user_input \in Range(files)
             THEN [ret |-> "False", i |-> index(files, user_input), plot_all |-> plot_all]
        ELSE keep("again")

\* lines 272-277 and 327: with plot_all the first prompt is skipped
InitNav ==
    /\ files \in FolderListings
    /\ plot_all \in BOOLEAN
    /\ navI = 1
    /\ navDepth = 0
    /\ lastInput = NoFile
    /\ lastPlotted = NoFile
    /\ plotted = {}
    /\ navPc = IF plot_all THEN "loop" ELSE "prompt"
    /\ navOutcome = "none"
    /\ PathIdle
    /\ AgrIdle
    /\ HIdle
    /\ ResIdle
    /\ ImpIdle

\* lines 328-330 and 344-345 with processar_input (278-325): the user
\* answers a prompt; an unsupported answer nests another activation
NavInput ==
    /\ navPc = "prompt"
    /\ \E u \in NavInputs :
        LET r == processar_input(u)
        IN  /\ lastInput' = u
            /\ IF r.ret = "again"
               THEN IF navDepth >= RecursionLimit
                    THEN /\ navPc' = "done"
                         /\ navOutcome' = "RecursionError"
                         /\ UNCHANGED <<navI, plot_all, navDepth>>
                    ELSE /\ navDepth' = navDepth + 1
                         /\ UNCHANGED <<navI, plot_all, navPc, navOutcome>>
               ELSE /\ navI' = r.i
                    /\ plot_all' = r.plot_all
                    /\ navDepth' = 0
                    /\ navPc' = IF r.ret = "True" THEN "done" ELSE "loop"
                    /\ navOutcome' = IF r.ret = "True" THEN "return" ELSE navOutcome
    /\ lastPlotted' = NoFile
    /\ UNCHANGED <<files, plotted, pathVars, agrVars, hVars, resVars, impVars>>

\* lines 337-342: files[i-1] is plotted and i advances
NavPlot ==
    /\ navPc = "loop"
    /\ navI <= num_files
    /\ IF InBounds(files, navI - 1)
       THEN /\ lastPlotted' = PyIndex(files, navI - 1)
            /\ plotted' = plotted \cup {PyIndex(files, navI - 1)}
            /\ navI' = navI + 1
            /\ navPc' = IF plot_all THEN "loop" ELSE "prompt"
            /\ navOutcome' = navOutcome
       ELSE /\ navPc' = "done"
            /\ navOutcome' = "IndexError"
            /\ UNCHANGED <<lastPlotted, plotted, navI>>
    /\ UNCHANGED <<files, plot_all, navDepth, lastInput,
                   pathVars, agrVars, hVars, resVars, impVars>>

\* lines 334-335
NavBreak ==
    /\ navPc = "loop"
    /\ navI > num_files
    /\ navPc' = "done"
    /\ navOutcome' = "return"
    /\ UNCHANGED <<files, plot_all, navI, navDepth, lastInput, lastPlotted, plotted,
                   pathVars, agrVars, hVars, resVars, impVars>>

NextNav == NavInput \/ NavPlot \/ NavBreak

SpecNav == InitNav /\ [][NextNav]_vars

----------------------------------------------------------------------------
(* Claims about the data handler, checked under SpecHandler *)

FirOps == {"generate_fir", "generate_fir_freq", "get_fir", "get_fir_freq"}

\* C1: when dac or imu is not set, generate_fir and every operation that
\* triggers it fails with ConfigError; it never returns normally without a
\* result and never fails with another kind of error.
C1_UnconfiguredRaisesConfigError ==
    (lastCall \in FirOps /\ ~is_config(Handler)) => outcome.kind = "ConfigError"

\* the handler is configured with columns of the sample
ConfiguredOk == dac \in SampleChannels /\ imu \in SampleChannels

\* C11: for a sample whose series are shorter than the filter memory size,
\* generate_fir fails with a precondition error and stores no coefficient
\* vector (here for a filter run that does not raise by itself).
C11_ShortSampleRejected ==
    ( /\ lastCall = "generate_fir"
      /\ ConfiguredOk
      /\ ~runFails
      /\ nSamples < memorysize )
    => /\ outcome.kind = "PreconditionError"
       /\ fir.st = "absent"

\* C18: on a configured handler, over any sequence of get_fir and
\* get_fir_freq calls the filter is run at most once and the spectral
\* transform is computed at most once, and a getter returns the stored
\* artifact.
C18_ComputedAtMostOnce ==
    is_config(Handler) =>
        /\ runs <= 1
        /\ transforms <= 1
        /\ (lastCall = "get_fir" /\ outcome.kind = "return") => outcome.val = fir
        /\ (lastCall = "get_fir_freq" /\ outcome.kind = "return") => outcome.val = fir_freq

\* both artifacts exist, each computed once, and get_fir has returned the
\* stored impulse response after the spectrum was requested
C18_Witness ==
    /\ is_config(Handler)
    /\ runs = 1
    /\ transforms = 1
    /\ lastCall = "get_fir"
    /\ outcome.kind = "return"
    /\ outcome.val.st = "run"

\* C19: every call of generate_fir_freq, get_fir or get_fir_freq ends after
\* at most one retry per missing artifact, also on a handler whose dac or
\* imu is not set; the retry never repeats until the interpreter stops it.
C19_RetryIsBounded ==
    lastCall \in {"generate_fir_freq", "get_fir", "get_fir_freq"} =>
        outcome.kind # "RecursionError"

\* C20: the impulse response a getter returns was computed from the
\* handler's current dac and imu, and the spectrum a getter returns was
\* computed from the stored impulse response.
C20_NoStaleArtifact ==
    /\ (lastCall = "get_fir" /\ outcome.kind = "return" /\ outcome.val.st = "run")
          => (outcome.val.dac = dac /\ outcome.val.imu = imu)
    /\ (lastCall = "get_fir_freq" /\ outcome.kind = "return")
          => outcome.val.src = fir

\* C2: after generate_fir failed partway, get_fir never returns and
\* generate_fir_freq never transforms the coefficients of a filter object
\* that was created but never run.
C2_NoUnrunFilterObserved ==
    /\ (lastCall = "get_fir" /\ outcome.kind = "return") => outcome.val.st = "run"
    /\ fir_freq.st = "computed" => fir_freq.src.st = "run"

----------------------------------------------------------------------------
(* Claims about desgaste and atuador, checked under SpecPath *)

HasLevel(p) ==
    /\ HasBeamDir(p)
    /\ \/ IsIntactDir(NearestBeamDir(p))
       \/ NearestBeamDir(p)[Len(NearestBeamDir(p))] \in Digits

\* the wear level the naming convention gives a path that has one
ConventionLevel(p) ==
    LET b == NearestBeamDir(p)
    IN  IF IsIntactDir(b) THEN 0 ELSE DigitVal(b[Len(b)])

\* C3: desgaste raises PathError for every path whose directory part holds
\* no directory matching the 'Viga' pattern, also when the directory merely
\* ends in a digit.
C3_NoBeamDirRaises ==
    (pathOp = "desgaste" /\ ~HasBeamDir(path)) => pathRet.kind = "PathError"

\* C4: desgaste returns the digit suffix of the nearest ancestor directory
\* matching the 'Viga' pattern, 0 when that directory carries 'Intacta';
\* directories nested below the beam directory do not change the result.
C4_NearestBeamDirLevel ==
    (pathOp = "desgaste" /\ HasLevel(path)) => pathRet = Returned(ConventionLevel(path))

\* the file name starts after the last "/" of the path (1-based position)
NameStart(p) ==
    LET S == {i \in 1..Len(p) : p[i] = "/"} IN IF S = {} THEN 1 ELSE Max(S) + 1

\* positions of "_" in the file name
Underscores(p) == {i \in NameStart(p)..Len(p) : p[i] = "_"}

\* the k-th character (k = 1, 2) of the second underscore-delimited token
\* exists: the k positions after the first "_" hold no "_"
SecondTokenHas(p, k) ==
    /\ Underscores(p) # {}
    /\ Min(Underscores(p)) + k <= Len(p)
    /\ \A j \in 1..k : p[Min(Underscores(p)) + j] # "_"

SecondTokenChar(p, k) == p[Min(Underscores(p)) + k]

\* C5 as stated: atuador returns the digit that is the first character of
\* the second underscore-delimited token of the file name, and raises
\* PathError when there is no second token or that character is no digit.
C5_FirstCharOfSecondToken ==
    pathOp = "atuador" =>
        IF SecondTokenHas(path, 1) /\ SecondTokenChar(path, 1) \in Digits
        THEN pathRet = Returned(DigitVal(SecondTokenChar(path, 1)))
        ELSE pathRet.kind = "PathError"

\* C5 amended: atuador returns the digit that is the second character
\* (index 1) of the second underscore-delimited token of the file name, and
\* raises PathError when there is no second token, the token has fewer than
\* two characters, or that character is no digit.
C5_SecondCharOfSecondToken ==
    pathOp = "atuador" =>
        IF SecondTokenHas(path, 2) /\ SecondTokenChar(path, 2) \in Digits
        THEN pathRet = Returned(DigitVal(SecondTokenChar(path, 2)))
        ELSE pathRet.kind = "PathError"

\* atuador has returned the second character of a token whose first
\* character is another digit
C5_Witness ==
    /\ pathOp = "atuador"
    /\ pathRet = Returned(2)
    /\ SecondTokenChar(path, 1) = "1"

----------------------------------------------------------------------------
(* Claims about agrupar_por_desgaste, checked under SpecAgrupar *)

BatchIdx == 1..Len(feather_paths)

\* the wear levels desgaste returns for the paths of the batch
LevelsReturned ==
    {desgaste(feather_paths[i]).val :
        i \in {j \in BatchIdx : desgaste(feather_paths[j]).kind = "return"}}

\* the paths of the batch for which desgaste returns d, in input order
PathsOfLevel(d) == SelectSeq(feather_paths, LAMBDA q : desgaste(q) = Returned(d))

\* C6: for well-formed paths and niveis_desgaste greater than or equal to
\* the number of wear levels actually present, agrupar_por_desgaste returns
\* a list whose index d holds exactly the input paths of wear level d, and
\* never fails with an index error.
C6_GroupsWithoutIndexError ==
    ( /\ agrOutcome = "done"
      /\ \A i \in BatchIdx : HasLevel(feather_paths[i])
      /\ niveis_desgaste >= Cardinality({ConventionLevel(feather_paths[i]) : i \in BatchIdx}) )
    => /\ agrResult.kind = "return"
       /\ \A d \in {ConventionLevel(feather_paths[i]) : i \in BatchIdx} :
            agrResult.val[d + 1] =
                SelectSeq(feather_paths, LAMBDA q : ConventionLevel(q) = d)

\* C7 as stated: in the result exactly the wear levels occurring among the
\* input paths are populated and the entry of every other level is empty.
C7_OtherLevelsEmpty ==
    (agrOutcome = "done" /\ agrResult.kind = "return") =>
        \A d \in 0..(niveis_desgaste - 1) :
            /\ d \in LevelsReturned => agrResult.val[d + 1] = PathsOfLevel(d)
            /\ d \notin LevelsReturned => agrResult.val[d + 1] = <<>>

\* C7 amended: in the result exactly the wear levels desgaste returns for
\* the input paths are populated (with those paths, in input order, and no
\* None), and the entry of every other level is the one-element list [None].
C7_OtherLevelsHoldNone ==
    (agrOutcome = "done" /\ agrResult.kind = "return") =>
        /\ Len(agrResult.val) = niveis_desgaste
        /\ \A d \in 0..(niveis_desgaste - 1) :
            /\ d \in LevelsReturned => agrResult.val[d + 1] = PathsOfLevel(d)
            /\ d \notin LevelsReturned => agrResult.val[d + 1] = <<NonePath>>

\* a returned grouping with a level holding two paths and an unused level
C7_Witness ==
    /\ agrOutcome = "done"
    /\ agrResult.kind = "return"
    /\ \E d \in LevelsReturned : Len(agrResult.val[d + 1]) = 2
    /\ \E d \in 0..(niveis_desgaste - 1) : d \notin LevelsReturned

\* C8: when one path of the batch violates the naming convention, the
\* PathError does not abort the scan: the well-formed paths of the batch
\* are still grouped and available to the caller.
C8_BadPathDoesNotAbort ==
    ( /\ agrOutcome = "done"
      /\ \E i \in BatchIdx : desgaste(feather_paths[i]).kind = "PathError"
      /\ \A d \in LevelsReturned : d < niveis_desgaste )
    => \A i \in BatchIdx :
          desgaste(feather_paths[i]).kind = "return" =>
              LET d == desgaste(feather_paths[i]).val
              IN  /\ d + 1 \in DOMAIN agrResult.val
                  /\ \E j \in DOMAIN agrResult.val[d + 1] :
                        agrResult.val[d + 1][j] = feather_paths[i]

----------------------------------------------------------------------------
(* Claims about achar_ressonancias, checked under SpecPeaks *)

IsFlat(x) == \A i \in 1..Len(x) : x[i] = x[1]

\* C9: for a flat magnitude spectrum, or one without a qualifying peak,
\* achar_ressonancias returns an empty result and does not raise.
C9_NoPeakReturnsEmpty ==
    (resPc = "done" /\ (IsFlat(magnitude) \/ picos = <<>>)) =>
        /\ resResult.kind = "return"
        /\ resResult.amplitudes = <<>>
        /\ resResult.ressonancias = <<>>

InPicos(i) == \E j \in 1..Len(picos) : picos[j] = i

\* C10: of two local maxima of different heights fewer than distancia
\* indices apart, achar_ressonancias reports at most the taller one.
C10_OnlyTallerOfClosePeaks ==
    resPc \in {"split", "done"} =>
        \A p \in LocalMaxima(magnitude), q \in LocalMaxima(magnitude) :
            ( /\ p # q
              /\ Abs(p - q) < distancia
              /\ X(magnitude, p) < X(magnitude, q) )
            => ~InPicos(p)

\* C14 as stated: the height threshold equals
\* mean(magnitude) + |mean(magnitude)| * altura_rel, also for a negative
\* altura_rel.
C14_ThresholdSignedRatio ==
    resPc \in {"split", "done"} =>
        altura[1] * (Len(magnitude) * altura_rel[2]) =
            (SumSeq(magnitude) * altura_rel[2] + Abs(SumSeq(magnitude)) * altura_rel[1])
                * altura[2]

\* C14 amended: the height threshold equals
\* mean(magnitude) + |mean(magnitude)| * |altura_rel|, so that a negative
\* altura_rel raises the threshold as its absolute value does.
C14_ThresholdAbsoluteRatio ==
    resPc \in {"split", "done"} =>
        altura[1] * (Len(magnitude) * altura_rel[2]) =
            (SumSeq(magnitude) * altura_rel[2]
                + Abs(SumSeq(magnitude)) * Abs(altura_rel[1])) * altura[2]

\* the threshold was computed for a negative altura_rel and a spectrum
\* that is not all zero
C14_Witness ==
    /\ resPc = "split"
    /\ altura_rel[1] < 0
    /\ SumSeq(magnitude) > 0
    /\ altura[1] > SumSeq(magnitude) * altura_rel[2]

\* C15: when k >= 1 peaks are found, achar_ressonancias returns k
\* amplitudes and k frequencies in ascending peak-index order, the j-th of
\* each being the magnitude and the frequency of the spectrum at the j-th
\* peak index.
C15_PeaksPairedInOrder ==
    (resPc = "done" /\ Len(picos) >= 1) =>
        /\ resResult.kind = "return"
        /\ Len(resResult.amplitudes) = Len(picos)
        /\ Len(resResult.ressonancias) = Len(picos)
        /\ \A j \in 1..(Len(picos) - 1) : picos[j] < picos[j + 1]
        /\ \A j \in 1..Len(picos) :
            /\ picos[j] \in LocalMaxima(magnitude)
            /\ resResult.amplitudes[j] = <<magnitude[picos[j] + 1]>>
            /\ resResult.ressonancias[j] = <<picos[j] * fs>>

\* two resonances were returned
C15_Witness ==
    /\ resPc = "done"
    /\ Len(picos) = 2
    /\ resResult.kind = "return"
    /\ Len(resResult.amplitudes) = 2

\* the files of a wear level, in the order achar_feathers found them
FilesOfLevel(lvl) == SelectSeq(feathers_paths, LAMBDA f : desgaste(f) = Returned(lvl))

\* the sample name of a feather file: its file name without ".feather"
SampleName(f) ==
    CHOOSE n \in {SubSeq(basename(f), 1, k) : k \in 0..Len(basename(f))} :
        n \o FeatherExt = basename(f)

\* the rows prescribed for one wear level and one imu
ExpectedBlock(lvl, imuName) ==
    [j \in 1..Len(FilesOfLevel(lvl)) |->
        [label |-> <<lvl, SampleName(FilesOfLevel(lvl)[j])>>,
         row   |-> [feather |-> FilesOfLevel(lvl)[j],
                    dac     |-> DacName(atuador(FilesOfLevel(lvl)[j]).val),
                    imu     |-> imuName]]]

\* the blocks prescribed from wear level lvl and the k-th imu on
RECURSIVE ExpectedFrom(_, _)
ExpectedFrom(lvl, k) ==
    IF lvl >= DefaultNiveis THEN <<>>
    ELSE IF FilesOfLevel(lvl) = <<>> \/ k > Len(imus) THEN ExpectedFrom(lvl + 1, 1)
    ELSE ExpectedBlock(lvl, imus[k]) \o ExpectedFrom(lvl, k + 1)

\* C12: for every order in which the pool workers complete, row j of each
\* (wear level, imu) block of the table importar_respostas_em_frequencia
\* returns holds the magnitude spectrum of the j-th file of that wear
\* level and is labelled with that file's wear level and sample name, so
\* the table is the same for every completion order.
C12_RowsFollowInputOrder ==
    (impPc = "done" /\ impResult.kind = "return") =>
        impResult.val = ExpectedFrom(0, 1)

\* a table was returned after the second task of a pool completed before
\* the first
C12_Witness ==
    /\ impPc = "done"
    /\ impResult.kind = "return"
    /\ Len(completionOrder) >= 2
    /\ completionOrder[1] > completionOrder[2]
    /\ Len(impResult.val) >= 2

\* the samples of the batch for which a worker raised or would raise
FailingSamples ==
    {f \in Range(feathers_paths) :
        /\ atuador(f).kind = "return"
        /\ \E k \in 1..Len(imus) :
            gerar_resposta_em_frequencia(f, atuador(f).val, imus[k]).kind # "return"}

\* the samples of the batch that every step of the pipeline accepts
GoodSamples ==
    {f \in Range(feathers_paths) :
        /\ desgaste(f).kind = "return"
        /\ atuador(f).kind = "return"
        /\ \A k \in 1..Len(imus) :
            gerar_resposta_em_frequencia(f, atuador(f).val, imus[k]).kind = "return"}

\* C13: when the pipeline fails for one sample, the batch is not aborted:
\* importar_respostas_em_frequencia returns, and the samples that did not
\* fail have their rows in what it returns.
C13_FailureDoesNotAbort ==
    ( /\ impPc = "done"
      /\ firstExc # NoExc
      /\ FailingSamples # {}
      /\ GoodSamples # {} )
    => /\ impResult.kind = "return"
       /\ \A f \in GoodSamples :
            \E j \in 1..Len(impResult.val) : impResult.val[j].row.feather = f

\* C16: entering the name of a file of the folder at a prompt makes
\* exactly that file the next one plotted.
C16_NamedFileIsNextPlotted ==
    (lastInput \in Range(files) /\ lastPlotted # NoFile) => lastPlotted = lastInput

\* C17: once 'all' is entered (or main is called with plot_all=True) no
\* further prompt is issued, and when the loop has ended every file of
\* the folder has been plotted.
C17_AllPlotsEveryFile ==
    /\ plot_all => navPc # "prompt"
    /\ (plot_all /\ navPc = "done") =>
        (navOutcome = "return" /\ Range(files) \subseteq plotted)

\* C21: every file index i used to plot satisfies 1 <= i <= num_files; an
\* integer input outside that range (zero, negative, or num_files + 1) is
\* rejected with the re-prompt and never reaches files[i-1], so no
\* IndexError ends the navigator.
C21_PlotIndexInRange ==
    /\ lastPlotted # NoFile => (1 <= navI - 1 /\ navI - 1 <= num_files)
    /\ navOutcome # "IndexError"
    /\ ( /\ ParseInt(lastInput).ok
         /\ ParseInt(lastInput).val \notin 1..num_files
         /\ navOutcome # "RecursionError" )
       => (navPc = "prompt" /\ navDepth > 0)

====
